---- MODULE Spec2Model ----
(***************************************************************************)
(* Model of kubetrail/bip32, package keys (pkg/keys/key.go): New, Derive,  *)
(* DecodeExtendedKey and Validate, together with the parts of              *)
(* github.com/tyler-smith/go-bip32 they call (NewMasterKey, NewChildKey,   *)
(* PublicKey, Serialize, Deserialize and the two package-level variables   *)
(* PublicWalletVersion / PrivateWalletVersion that New assigns).           *)
(*                                                                         *)
(* Abstractions.  Bytes are naturals 0..255.  The 32-byte scalar is        *)
(* modelled by a 2-byte big-endian scalar and the curve group by the       *)
(* additive group of integers modulo a 16-bit prime order; a compressed    *)
(* point is a parity byte (2 or 3) followed by the 2-byte x coordinate.    *)
(* HMAC-SHA512 and hash160 are fixed deterministic mixing functions.       *)
(* 32- and 64-bit machine integers are kept at full width as sequences of  *)
(* 16-bit limbs.  Strings that the code scans character by character       *)
(* (derivation paths) are sequences of one-character strings.              *)
(***************************************************************************)
EXTENDS Integers, Sequences, FiniteSets, TLC

(***************************************************************************)
(* Program constants                                                       *)
(***************************************************************************)
ScriptTypeP2pkhOrP2sh == "p2pkh-or-p2sh"
ScriptTypeP2wpkhP2sh == "p2wpkh-p2sh"
ScriptTypeP2wshP2sh == "p2wsh-p2sh"
ScriptTypeP2wpkh == "p2wpkh"
ScriptTypeP2wsh == "p2wsh"

ScriptTypeLegacy == "legacy"
ScriptTypeP2sh == "p2sh"
ScriptTypeSegWitCompatible == "segwit-compatible"
ScriptTypeSegWitNative == "segwit-native"
ScriptTypeBech32 == "bech32"

xpub == "0488b21e"
xprv == "0488ade4"
tpub == "043587cf"
tprv == "04358394"
ypub == "049d7cb2"
yprv == "049d7878"
upub == "044a5262"
uprv == "044a4e28"
Ypub == "0295b43f"
Yprv == "0295b005"
Upub == "024289ef"
Uprv == "024285b5"
zpub == "04b24746"
zprv == "04b2430c"
vpub == "045f1cf6"
vprv == "045f18bc"
Zpub == "02aa7ed3"
Zprv == "02aa7a99"
Vpub == "02575483"
Vprv == "02575048"

NetworkTypeMainnet == "mainnet"
NetworkTypeTestnet == "testnet"
CoinTypeBtc == "btc"
KeyTypePub == "pub"
KeyTypePrv == "prv"

\* a nil []byte version (hex.EncodeToString gives the empty string)
NilVersion == ""

CanonicalScriptTypes ==
  {ScriptTypeP2pkhOrP2sh, ScriptTypeP2wpkhP2sh, ScriptTypeP2wshP2sh,
   ScriptTypeP2wpkh, ScriptTypeP2wsh}

\* keyVersions: the map literal built in init(); the key path.Join(coin,
\* network, scriptType, keyType) is the tuple of its four components
keyVersions ==
  <<CoinTypeBtc, NetworkTypeMainnet, ScriptTypeP2pkhOrP2sh, KeyTypePub>> :> xpub @@
  <<CoinTypeBtc, NetworkTypeMainnet, ScriptTypeP2pkhOrP2sh, KeyTypePrv>> :> xprv @@
  <<CoinTypeBtc, NetworkTypeTestnet, ScriptTypeP2pkhOrP2sh, KeyTypePub>> :> tpub @@
  <<CoinTypeBtc, NetworkTypeTestnet, ScriptTypeP2pkhOrP2sh, KeyTypePrv>> :> tprv @@
  <<CoinTypeBtc, NetworkTypeMainnet, ScriptTypeP2wpkhP2sh, KeyTypePub>> :> ypub @@
  <<CoinTypeBtc, NetworkTypeMainnet, ScriptTypeP2wpkhP2sh, KeyTypePrv>> :> yprv @@
  <<CoinTypeBtc, NetworkTypeTestnet, ScriptTypeP2wpkhP2sh, KeyTypePub>> :> upub @@
  <<CoinTypeBtc, NetworkTypeTestnet, ScriptTypeP2wpkhP2sh, KeyTypePrv>> :> uprv @@
  <<CoinTypeBtc, NetworkTypeMainnet, ScriptTypeP2wshP2sh, KeyTypePub>> :> Ypub @@
  <<CoinTypeBtc, NetworkTypeMainnet, ScriptTypeP2wshP2sh, KeyTypePrv>> :> Yprv @@
  <<CoinTypeBtc, NetworkTypeTestnet, ScriptTypeP2wshP2sh, KeyTypePub>> :> Upub @@
  <<CoinTypeBtc, NetworkTypeTestnet, ScriptTypeP2wshP2sh, KeyTypePrv>> :> Uprv @@
  <<CoinTypeBtc, NetworkTypeMainnet, ScriptTypeP2wpkh, KeyTypePub>> :> zpub @@
  <<CoinTypeBtc, NetworkTypeMainnet, ScriptTypeP2wpkh, KeyTypePrv>> :> zprv @@
  <<CoinTypeBtc, NetworkTypeTestnet, ScriptTypeP2wpkh, KeyTypePub>> :> vpub @@
  <<CoinTypeBtc, NetworkTypeTestnet, ScriptTypeP2wpkh, KeyTypePrv>> :> vprv @@
  <<CoinTypeBtc, NetworkTypeMainnet, ScriptTypeP2wsh, KeyTypePub>> :> Zpub @@
  <<CoinTypeBtc, NetworkTypeMainnet, ScriptTypeP2wsh, KeyTypePrv>> :> Zprv @@
  <<CoinTypeBtc, NetworkTypeTestnet, ScriptTypeP2wsh, KeyTypePub>> :> Vpub @@
  <<CoinTypeBtc, NetworkTypeTestnet, ScriptTypeP2wsh, KeyTypePrv>> :> Vprv

mainnetVersions == {xpub, xprv, ypub, yprv, Ypub, Yprv, zpub, zprv, Zpub, Zprv}

testnetVersions == {tpub, tprv, upub, uprv, Upub, Uprv, vpub, vprv, Vpub, Vprv}

\* v, ok = keyVersions[k]: a missing key yields the zero value (nil) and
\* ok = false
MapLookup(k) ==
  IF k \in DOMAIN keyVersions
    THEN [v |-> keyVersions[k], ok |-> TRUE]
    ELSE [v |-> NilVersion, ok |-> FALSE]

(***************************************************************************)
(* Machine integers: a uint64 is four 16-bit limbs, a uint32 two, least    *)
(* significant limb first.                                                 *)
(***************************************************************************)
LimbBase == 65536

ByteBase == 256

Zero64 == <<0, 0, 0, 0>>

\* v*10 + d on four limbs; c is the carry out of the top limb
MulAdd10(v, d) ==
  LET t1 == v[1] * 10 + d
      t2 == v[2] * 10 + (t1 \div LimbBase)
      t3 == v[3] * 10 + (t2 \div LimbBase)
      t4 == v[4] * 10 + (t3 \div LimbBase)
  IN [v |-> <<t1 % LimbBase, t2 % LimbBase, t3 % LimbBase, t4 % LimbBase>>,
      c |-> t4 \div LimbBase]

Digits == <<"0", "1", "2", "3", "4", "5", "6", "7", "8", "9">>

IsDigit(c) == \E i \in 1..Len(Digits) : Digits[i] = c

DigitVal(c) == (CHOOSE i \in 1..Len(Digits) : Digits[i] = c) - 1

\* strconv.ParseUint(s, 10, 64) from character i on, accumulator v
RECURSIVE ParseUintFrom(_, _, _)
ParseUintNext(s, i, r) ==
  IF r.c > 0 THEN [err |-> "range", v |-> Zero64]
  ELSE ParseUintFrom(s, i + 1, r.v)

ParseUintFrom(s, i, v) ==
  IF i > Len(s) THEN [err |-> "", v |-> v]
  ELSE IF ~IsDigit(s[i]) THEN [err |-> "syntax", v |-> Zero64]
  ELSE ParseUintNext(s, i, MulAdd10(v, DigitVal(s[i])))

ParseUint(s) ==
  IF Len(s) = 0 THEN [err |-> "syntax", v |-> Zero64]
  ELSE ParseUintFrom(s, 1, Zero64)

\* the range check of ParseInt on the magnitude u: 2^63 is in range only
\* with a minus sign
ParseIntRange(neg, u) ==
  IF u.err # "" THEN [err |-> u.err, neg |-> neg, mag |-> Zero64]
  ELSE IF u.v[4] >= 32768 /\ ~(neg /\ u.v = <<0, 0, 0, 32768>>)
    THEN [err |-> "range", neg |-> neg, mag |-> Zero64]
  ELSE [err |-> "", neg |-> neg, mag |-> u.v]

\* strconv.ParseInt(s, 10, 64): sign, magnitude, range check.  The int64
\* result is kept as sign and magnitude.
ParseInt(s) ==
  IF Len(s) = 0 THEN [err |-> "syntax", neg |-> FALSE, mag |-> Zero64]
  ELSE ParseIntRange(s[1] = "-",
                     ParseUint(IF s[1] = "+" \/ s[1] = "-"
                                 THEN SubSeq(s, 2, Len(s)) ELSE s))

\* index < 0 for a parsed int64
IsNegative(p) == p.neg /\ p.mag # Zero64

\* uint32(index) for a non-negative int64: the low 32 bits
Uint32Of(mag) == <<mag[1], mag[2]>>

\* bip32.FirstHardenedChild = uint32(0x80000000)
FirstHardenedChild == <<0, 32768>>

\* a += b on uint32, wrapping modulo 2^32
AddUint32(a, b) ==
  LET lo == a[1] + b[1]
      hi == a[2] + b[2] + (lo \div LimbBase)
  IN <<lo % LimbBase, hi % LimbBase>>

\* a >= FirstHardenedChild on uint32
GeFirstHardened(a) == a[2] >= FirstHardenedChild[2]

\* uint32Bytes: big-endian 4 bytes
uint32Bytes(a) ==
  <<a[2] \div ByteBase, a[2] % ByteBase, a[1] \div ByteBase, a[1] % ByteBase>>

\* big.Int.SetBytes: big-endian bytes to a natural
RECURSIVE SetBytes(_)
SetBytes(b) ==
  IF Len(b) = 0 THEN 0
  ELSE SetBytes(SubSeq(b, 1, Len(b) - 1)) * ByteBase + b[Len(b)]

(***************************************************************************)
(* Strings scanned by the code: sequences of one-character strings         *)
(***************************************************************************)
UpperChars ==
  <<"A","B","C","D","E","F","G","H","I","J","K","L","M",
    "N","O","P","Q","R","S","T","U","V","W","X","Y","Z">>

LowerChars ==
  <<"a","b","c","d","e","f","g","h","i","j","k","l","m",
    "n","o","p","q","r","s","t","u","v","w","x","y","z">>

LowerChar(c) ==
  IF \E i \in 1..Len(UpperChars) : UpperChars[i] = c
    THEN LowerChars[CHOOSE i \in 1..Len(UpperChars) : UpperChars[i] = c]
    ELSE c

\* strings.ToLower
ToLower(s) == [i \in 1..Len(s) |-> LowerChar(s[i])]

\* strings.Trim(s, "/")
RECURSIVE TrimLeft(_)
TrimLeft(s) ==
  IF Len(s) > 0 /\ s[1] = "/" THEN TrimLeft(SubSeq(s, 2, Len(s))) ELSE s

RECURSIVE TrimRight(_)
TrimRight(s) ==
  IF Len(s) > 0 /\ s[Len(s)] = "/"
    THEN TrimRight(SubSeq(s, 1, Len(s) - 1)) ELSE s

Trim(s) == TrimRight(TrimLeft(s))

\* strings.Split(s, "/"): cur is the segment being collected
RECURSIVE SplitFrom(_, _, _)
SplitFrom(s, i, cur) ==
  IF i > Len(s) THEN <<cur>>
  ELSE IF s[i] = "/" THEN <<cur>> \o SplitFrom(s, i + 1, <<>>)
  ELSE SplitFrom(s, i + 1, Append(cur, s[i]))

Split(s) == SplitFrom(s, 1, <<>>)

(***************************************************************************)
(* Curve, hash and codec collaborators (abstracted)                        *)
(***************************************************************************)
\* BigN: the group order n (a 16-bit prime here); BigZ: zero
BigN == 65521

BigZ == 0

\* big-endian encoding of a scalar (32 bytes in the program, 2 here)
ScalarBytes(v) == <<v \div ByteBase, v % ByteBase>>

\* compressed encoding of the point s*G; s = 0 is the point at infinity,
\* whose encoding is the encoding of no curve point
CompressPoint(s) ==
  IF s = 0 THEN <<2, 0, 0>>
  ELSE IF 2 * s < BigN THEN <<2>> \o ScalarBytes(s)
  ELSE <<3>> \o ScalarBytes(BigN - s)

\* btcec.ParsePubKey succeeds: compressed format byte and x on the curve
IsOnCurve(pub) ==
  /\ Len(pub) = 3
  /\ pub[1] \in {2, 3}
  /\ LET x == SetBytes(Tail(pub)) IN x >= 1 /\ 2 * x < BigN

\* the scalar s with pub = CompressPoint(s), for pub on the curve
PointLog(pub) ==
  LET x == SetBytes(Tail(pub)) IN IF pub[1] = 2 THEN x ELSE BigN - x

publicKeyForPrivateKey(key) == CompressPoint(SetBytes(key) % BigN)

RECURSIVE WSum(_)
WSum(b) == IF Len(b) = 0 THEN 0
           ELSE WSum(SubSeq(b, 1, Len(b) - 1)) + Len(b) * b[Len(b)]

\* HMAC-SHA512(key = chain, data): left half IL, right half IR
hmacSha512(chain, data) ==
  [IL |-> ScalarBytes((chain * 7919 + WSum(data) * 31 + 12345) % LimbBase),
   IR |-> (chain * 5 + WSum(data) + 1) % 4]

\* hash160
hash160(data) ==
  LET w == WSum(data) * 97 + 1
  IN <<w % ByteBase, (w \div ByteBase) % ByteBase,
       (w * 7) % ByteBase, (w * 13) % ByteBase, (w * 3) % ByteBase>>

\* first 4 bytes of the double SHA-256 of the 78-byte payload
checksum(version, depth, fp, cn, chain, keydata) ==
  <<version, (depth * 257 + WSum(fp) * 3 + WSum(cn) * 5 + chain * 11
              + WSum(keydata) * 13) % LimbBase>>

(***************************************************************************)
(* github.com/tyler-smith/go-bip32                                         *)
(***************************************************************************)
NilKey == <<>>

ErrSerializedKeyWrongSize == "Serialized keys should by exactly 82 bytes"
ErrHardnedChildPublicKey == "Can't create hardened child for public key"
ErrInvalidChecksum == "Checksum doesn't match"
ErrInvalidPrivateKey == "Invalid private key"
ErrInvalidPublicKey == "Invalid public key"

validatePrivateKey(key) ==
  IF SetBytes(key) = 0 \/ SetBytes(key) >= BigN \/ Len(key) # 2
    THEN ErrInvalidPrivateKey ELSE ""

\* Serialize without the zero byte before a private key
SerializeNoPadMutant(key) ==
  [version |-> key.Version, depth |-> key.Depth, fp |-> key.FingerPrint,
   cn |-> key.ChildNumber, chain |-> key.ChainCode, keydata |-> key.Key,
   cs |-> checksum(key.Version, key.Depth, key.FingerPrint, key.ChildNumber,
                   key.ChainCode, key.Key)]

\* Key.Serialize / B58Serialize / String: the fields in wire order, a private
\* key prefixed by a zero byte, followed by the checksum
Serialize(key) ==
  LET keyBytes == IF key.IsPrivate THEN <<0>> \o key.Key ELSE key.Key
  IN [version |-> key.Version, depth |-> key.Depth, fp |-> key.FingerPrint,
      cn |-> key.ChildNumber, chain |-> key.ChainCode, keydata |-> keyBytes,
      cs |-> checksum(key.Version, key.Depth, key.FingerPrint,
                      key.ChildNumber, key.ChainCode, keyBytes)]

\* B58Deserialize / Deserialize: 82 bytes, fields by position, IsPrivate from
\* the first key byte, checksum compared last.  The version is not looked up.
Deserialize(text) ==
  IF text.version = NilVersion \/ Len(text.keydata) # 3
    THEN [err |-> ErrSerializedKeyWrongSize, key |-> NilKey]
  ELSE IF text.cs # checksum(text.version, text.depth, text.fp, text.cn,
                             text.chain, text.keydata)
    THEN [err |-> ErrInvalidChecksum, key |-> NilKey]
  ELSE [err |-> "",
        key |-> [Version |-> text.version, Depth |-> text.depth,
                 FingerPrint |-> text.fp, ChildNumber |-> text.cn,
                 ChainCode |-> text.chain,
                 IsPrivate |-> text.keydata[1] = 0,
                 Key |-> IF text.keydata[1] = 0 THEN Tail(text.keydata)
                         ELSE text.keydata]]

\* the master key from I = HMAC-SHA512("Bitcoin seed", seed)
MasterOf(I, prv) ==
  IF validatePrivateKey(I.IL) # ""
    THEN [err |-> ErrInvalidPrivateKey, key |-> NilKey]
    ELSE [err |-> "",
          key |-> [Version |-> prv, ChainCode |-> I.IR, Key |-> I.IL,
                   Depth |-> 0, ChildNumber |-> <<0, 0, 0, 0>>,
                   FingerPrint |-> <<0, 0, 0, 0>>, IsPrivate |-> TRUE]]

\* NewMasterKey: reads the package variable PrivateWalletVersion (prv)
NewMasterKey(seed, prv) == MasterOf(hmacSha512(1, seed), prv)

getIntermediary(key, childIdx) ==
  LET data == IF GeFirstHardened(childIdx) THEN <<0>> \o key.Key
              ELSE IF key.IsPrivate THEN publicKeyForPrivateKey(key.Key)
              ELSE key.Key
  IN hmacSha512(key.ChainCode, data \o uint32Bytes(childIdx))

addPrivateKeys(k1, k2) == ScalarBytes((SetBytes(k1) + SetBytes(k2)) % BigN)

\* the sum with a parent that is no curve point is no curve point
addPublicKeys(k1, k2) ==
  IF IsOnCurve(k1) /\ IsOnCurve(k2)
    THEN CompressPoint((PointLog(k1) + PointLog(k2)) % BigN)
    ELSE <<2, 0, 0>>

validateChildPublicKey(key) ==
  IF SetBytes(Tail(key)) = 0 THEN ErrInvalidPublicKey ELSE ""

\* CKDpriv: the child's version is the package variable
\* PrivateWalletVersion (prv)
PrivateChild(key, common, child, prv) ==
  IF validatePrivateKey(child) # ""
    THEN [err |-> ErrInvalidPrivateKey, key |-> NilKey]
    ELSE [err |-> "",
          key |-> common @@
            [Version |-> prv,
             FingerPrint |->
               SubSeq(hash160(publicKeyForPrivateKey(key.Key)), 1, 4),
             Key |-> child]]

\* CKDpub: the child's version is the package variable PublicWalletVersion
PublicChild(key, common, keyBytes, pub) ==
  IF validateChildPublicKey(keyBytes) # ""
    THEN [err |-> ErrInvalidPublicKey, key |-> NilKey]
    ELSE [err |-> "",
          key |-> common @@
            [Version |-> pub,
             FingerPrint |-> SubSeq(hash160(key.Key), 1, 4),
             Key |-> addPublicKeys(keyBytes, key.Key)]]

\* the child built from the intermediary I; Depth is a byte
ChildOf(key, childIdx, I, prv, pub) ==
  IF key.IsPrivate
    THEN PrivateChild(key,
                      [ChildNumber |-> uint32Bytes(childIdx),
                       ChainCode |-> I.IR,
                       Depth |-> (key.Depth + 1) % ByteBase,
                       IsPrivate |-> key.IsPrivate],
                      addPrivateKeys(I.IL, key.Key), prv)
    ELSE PublicChild(key,
                     [ChildNumber |-> uint32Bytes(childIdx),
                      ChainCode |-> I.IR,
                      Depth |-> (key.Depth + 1) % ByteBase,
                      IsPrivate |-> key.IsPrivate],
                     publicKeyForPrivateKey(I.IL), pub)

\* Key.NewChildKey
NewChildKey(key, childIdx, prv, pub) ==
  IF ~key.IsPrivate /\ GeFirstHardened(childIdx)
    THEN [err |-> ErrHardnedChildPublicKey, key |-> NilKey]
    ELSE ChildOf(key, childIdx, getIntermediary(key, childIdx), prv, pub)

\* Key.PublicKey: the version is the package variable PublicWalletVersion
PublicKey(key, pub) ==
  [Version |-> pub,
   Key |-> IF key.IsPrivate THEN publicKeyForPrivateKey(key.Key) ELSE key.Key,
   Depth |-> key.Depth, ChildNumber |-> key.ChildNumber,
   FingerPrint |-> key.FingerPrint, ChainCode |-> key.ChainCode,
   IsPrivate |-> FALSE]

(***************************************************************************)
(* package keys                                                            *)
(***************************************************************************)
NoString == <<>>

ErrPathStart == "invalid derivation path, must start with m"
ErrPathIndex == "invalid derivation path at index"
ErrUnsupportedNetwork == "unsupported network and/or coin type"
ErrParsePubKey == "failed to parse pubkey"
ErrAddressPubKey == "failed to generate new address from pub key"
ErrInvalidNetwork == "invalid or unsupported network"
ErrKeyVersionPub == "failed to get key version for pubic key"
ErrKeyVersionPrv == "failed to get key version for private key"
PanicIndexOutOfRange == "index out of range [-1]"

Ok(k) == [st |-> "ok", err |-> "", key |-> k]

Fail(e) == [st |-> "err", err |-> e, key |-> NilKey]

Panic(e) == [st |-> "panic", err |-> e, key |-> NilKey]

\* the last character of a part is a hardening marker
IsMarked(part) == part[Len(part)] = "'" \/ part[Len(part)] = "h"

\* idx for a part whose numeric text parsed to p
IndexOf(marked, p) ==
  IF p.err # "" \/ IsNegative(p) THEN [err |-> ErrPathIndex, idx |-> <<0, 0>>]
  ELSE [err |-> "",
        idx |-> AddUint32(IF marked THEN FirstHardenedChild ELSE <<0, 0>>,
                          Uint32Of(p.mag))]

ChildIndex(part) ==
  IndexOf(IsMarked(part),
          ParseInt(IF IsMarked(part) THEN SubSeq(part, 1, Len(part) - 1)
                   ELSE part))

\* key, err = key.NewChildKey(idx)
ChildResult(r) == IF r.err # "" THEN Fail(r.err) ELSE Ok(r.key)

StepChild(key, c, prv, pub) ==
  IF c.err # "" THEN Fail(c.err)
  ELSE ChildResult(NewChildKey(key, c.idx, prv, pub))

\* the body of the loop for one part: index, then NewChildKey; indexing the
\* last character of an empty part panics
StepPart(key, part, prv, pub) ==
  IF Len(part) = 0 THEN Panic(PanicIndexOutOfRange)
  ELSE StepChild(key, ChildIndex(part), prv, pub)

RECURSIVE WalkParts(_, _, _, _, _)
\* the rest of the loop after iteration i returned r
WalkNext(r, parts, i, prv, pub) ==
  IF r.st # "ok" THEN r ELSE WalkParts(r.key, parts, i + 1, prv, pub)

WalkParts(key, parts, i, prv, pub) ==
  IF i > Len(parts) THEN Ok(key)
  ELSE WalkNext(StepPart(key, parts[i], prv, pub), parts, i, prv, pub)

DefaultPath(t) == IF Len(t) = 0 THEN <<"m">> ELSE t

\* the path after ToLower, Trim and the empty-path default
NormalPath(derivationPath) == DefaultPath(Trim(ToLower(derivationPath)))

WalkFrom(key, parts, prv, pub) ==
  IF parts[1] # <<"m">> THEN Fail(ErrPathStart)
  ELSE WalkParts(key, parts, 2, prv, pub)

extendedKeyToDerivedExtendedKey(key, derivationPath, prv, pub) ==
  WalkFrom(key, Split(NormalPath(derivationPath)), prv, pub)

\* the network whose version set holds the version; "" for none
NetworkOfVersion(version) ==
  IF version \in mainnetVersions THEN NetworkTypeMainnet
  ELSE IF version \in testnetVersions THEN NetworkTypeTestnet
  ELSE ""

\* the returned Key.  chaincfg parameters are named by their network; an
\* address or a WIF is its network together with what it encodes
KeyOutput(key, network, pubKey, witnessProg) ==
  Ok([XPrv |-> IF key.IsPrivate THEN Serialize(key) ELSE NoString,
      XPub |-> Serialize(pubKey),
      PrvKeyWif |-> IF key.IsPrivate THEN [net |-> network, key |-> key.Key]
                    ELSE NoString,
      PubKeyHex |-> pubKey.Key,
      Addr |-> [net |-> network, form |-> "p2pkh", h |-> witnessProg],
      SegWitNested |-> [net |-> network, form |-> "p2sh-p2wpkh",
                        h |-> hash160(witnessProg)],
      SegWitBech32 |-> [net |-> network, form |-> "p2wpkh",
                        h |-> witnessProg],
      Network |-> network,
      CoinType |-> CoinTypeBtc,
      Seed |-> NoString,
      DerivationPath |-> NoString])

\* from the public key on: WIF and ParsePubKey, then the addresses
KeyFromPublic(key, network, pubKey, serializedPubKey) ==
  IF ~key.IsPrivate /\ ~IsOnCurve(pubKey.Key) THEN Fail(ErrParsePubKey)
  ELSE IF ~IsOnCurve(serializedPubKey) THEN Fail(ErrAddressPubKey)
  ELSE KeyOutput(key, network, pubKey, hash160(serializedPubKey))

extendedKeyToKey(key, pub) ==
  IF NetworkOfVersion(key.Version) = "" THEN Fail(ErrUnsupportedNetwork)
  ELSE IF key.IsPrivate
    THEN KeyFromPublic(key, NetworkOfVersion(key.Version),
                       PublicKey(key, pub),
                       CompressPoint(SetBytes(key.Key) % BigN))
    ELSE KeyFromPublic(key, NetworkOfVersion(key.Version), key, key.Key)

ErrDeserialize == "failed to deserialize key"

\* return extendedKeyToKey(key) unless the derivation failed
ToKey(x, pub) == IF x.st # "ok" THEN x ELSE extendedKeyToKey(x.key, pub)

DeriveKey(d, derivationPath, prv, pub) ==
  IF d.err # "" THEN Fail(ErrDeserialize)
  ELSE ToKey(extendedKeyToDerivedExtendedKey(d.key, derivationPath, prv, pub),
             pub)

Derive(keyString, derivationPath, prv, pub) ==
  DeriveKey(Deserialize(keyString), derivationPath, prv, pub)

DecodeExtendedKey(keyString, prv, pub) == Derive(keyString, <<"m">>, prv, pub)

\* strings.ToLower on the words a Config carries
ToLowerWord(w) ==
  CASE w = "MAINNET" -> NetworkTypeMainnet
    [] w = "Testnet" -> NetworkTypeTestnet
    [] w = "P2WPKH" -> ScriptTypeP2wpkh
    [] w = "Legacy" -> ScriptTypeLegacy
    [] OTHER -> w

\* the switch on scriptType
CanonicalScriptType(scriptType) ==
  CASE scriptType = ScriptTypeLegacy -> ScriptTypeP2pkhOrP2sh
    [] scriptType \in {ScriptTypeP2sh, ScriptTypeSegWitCompatible} ->
         ScriptTypeP2wpkhP2sh
    [] scriptType \in {ScriptTypeSegWitNative, ScriptTypeBech32} ->
         ScriptTypeP2wpkh
    [] OTHER -> scriptType

\* key.Seed and key.DerivationPath are set on the converted key
NewOutput(config, k) ==
  IF k.st # "ok" THEN k
  ELSE Ok([k.key EXCEPT !.Seed = config.Seed,
                        !.DerivationPath = ToLower(config.DerivationPath)])

NewDerive(config, m, prv, pub) ==
  IF m.err # "" THEN Fail(m.err)
  ELSE NewOutput(config,
         ToKey(extendedKeyToDerivedExtendedKey(
                 m.key, ToLower(config.DerivationPath), prv, pub), pub))

\* New from NewMasterKey on, the package variables being prv and pub
NewKey(config, prv, pub) ==
  NewDerive(config, NewMasterKey(config.Seed, prv), prv, pub)

\* New with the private version never assigned to the package variable
NewVersionsPubOnly(config, lp, lv, prv, pub) ==
  IF ~lp.ok THEN [prv |-> prv, pub |-> lp.v, res |-> Fail(ErrKeyVersionPub)]
  ELSE IF ~lv.ok
    THEN [prv |-> prv, pub |-> lp.v, res |-> Fail(ErrKeyVersionPrv)]
  ELSE [prv |-> prv, pub |-> lp.v, res |-> NewKey(config, prv, lp.v)]

\* the two assignments "bip32.XWalletVersion, ok = keyVersions[...]": the
\* variable is assigned before ok is tested
NewVersions(config, lp, lv, prv, pub) ==
  IF ~lp.ok THEN [prv |-> prv, pub |-> lp.v, res |-> Fail(ErrKeyVersionPub)]
  ELSE IF ~lv.ok
    THEN [prv |-> lv.v, pub |-> lp.v, res |-> Fail(ErrKeyVersionPrv)]
  ELSE [prv |-> lv.v, pub |-> lp.v, res |-> NewKey(config, lv.v, lp.v)]

NewOn(config, network, scriptType, prv, pub) ==
  IF network \notin {NetworkTypeMainnet, NetworkTypeTestnet}
    THEN [prv |-> prv, pub |-> pub, res |-> Fail(ErrInvalidNetwork)]
    ELSE NewVersions(config,
           MapLookup(<<CoinTypeBtc, network, scriptType, KeyTypePub>>),
           MapLookup(<<CoinTypeBtc, network, scriptType, KeyTypePrv>>),
           prv, pub)

\* New: res is the returned (*Key, error); pub and prv are the package
\* variables bip32.PublicWalletVersion / PrivateWalletVersion on return
New(config, prv, pub) ==
  NewOn(config, ToLowerWord(config.Network),
        CanonicalScriptType(ToLowerWord(config.ScriptType)), prv, pub)

ErrDecode == "failed to decode key"
ErrMarkedPrivateVersionPublic == "key is marked private, however, key version is public"
ErrMarkedPublicVersionPrivate == "key is marked public, however, key version is private"
ErrUnknownVersion == "unknown key version found"
ErrPublicPrefix04 == "invalid public key prefix 04"
ErrPrivatePrefix04 == "invalid private key prefix 04"
ErrPublicPrefix01 == "invalid public key prefix 01"
ErrPrivatePrefix01 == "invalid private key prefix 01"
ErrDepthZeroFingerprint == "key depth is zero, however, parent non-zero fingerprint exists"
ErrDepthZeroChildIndex == "key depth is zero, however, non-zero child index exists"
ErrTooLarge == "key is not in 1:n-1, key is too large"
ErrTooSmall == "key is not in 1:n-1, key is too small"

\* the loop over keyVersions: the entry whose version equals the key's
VersionCheck(key) ==
  IF \A k \in DOMAIN keyVersions : keyVersions[k] # key.Version
    THEN ErrUnknownVersion
  ELSE LET k == CHOOSE kk \in DOMAIN keyVersions :
                  keyVersions[kk] = key.Version
       IN IF k[4] = KeyTypePub /\ key.IsPrivate
            THEN ErrMarkedPrivateVersionPublic
          ELSE IF k[4] = KeyTypePrv /\ ~key.IsPrivate
            THEN ErrMarkedPublicVersionPrivate
          ELSE ""

PrefixCheck(key) ==
  IF ~key.IsPrivate /\ key.Key[1] = 4 THEN ErrPublicPrefix04
  ELSE IF key.IsPrivate /\ key.Key[1] = 4 THEN ErrPrivatePrefix04
  ELSE IF ~key.IsPrivate /\ key.Key[1] = 1 THEN ErrPublicPrefix01
  ELSE IF key.IsPrivate /\ key.Key[1] = 1 THEN ErrPrivatePrefix01
  ELSE ""

DepthZeroCheck(key) ==
  IF key.Depth = 0 /\ \E i \in 1..Len(key.FingerPrint) : key.FingerPrint[i] > 0
    THEN ErrDepthZeroFingerprint
  ELSE IF key.Depth = 0 /\ \E i \in 1..Len(key.ChildNumber) :
                             key.ChildNumber[i] > 0
    THEN ErrDepthZeroChildIndex
  ELSE ""

\* the range check with "x.Cmp(n) == 1" for "x.Cmp(n) != -1"
RangeCheckGreaterOnly(key) ==
  IF ~key.IsPrivate THEN ""
  ELSE IF SetBytes(key.Key) > BigN THEN ErrTooLarge
  ELSE IF ~(SetBytes(key.Key) > BigZ) THEN ErrTooSmall
  ELSE ""

\* x.Cmp(n) != -1, then x.Cmp(z) != 1
RangeCheck(key) ==
  IF ~key.IsPrivate THEN ""
  ELSE IF ~(SetBytes(key.Key) < BigN) THEN ErrTooLarge
  ELSE IF ~(SetBytes(key.Key) > BigZ) THEN ErrTooSmall
  ELSE ""

\* the checks with the prefix checks moved before the version loop
ValidateKeyPrefixFirst(key) ==
  IF PrefixCheck(key) # "" THEN PrefixCheck(key)
  ELSE IF VersionCheck(key) # "" THEN VersionCheck(key)
  ELSE IF DepthZeroCheck(key) # "" THEN DepthZeroCheck(key)
  ELSE RangeCheck(key)

\* the checks of Validate on the deserialized key, in program order
ValidateKey(key) ==
  IF VersionCheck(key) # "" THEN VersionCheck(key)
  ELSE IF PrefixCheck(key) # "" THEN PrefixCheck(key)
  ELSE IF DepthZeroCheck(key) # "" THEN DepthZeroCheck(key)
  ELSE RangeCheck(key)

\* Validate: the returned error, "" for nil
Validate(keyString) ==
  LET d == Deserialize(keyString)
  IN IF d.err # "" THEN ErrDecode ELSE ValidateKey(d.key)

(***************************************************************************)
(* Inputs                                                                  *)
(***************************************************************************)
MaxSeed == 1

MaxChain == 1

\* a version tag that is in no registry
UnregisteredVersion == "0a0b0c0d"

MkText(version, depth, fp, cn, chain, keydata) ==
  [version |-> version, depth |-> depth, fp |-> fp, cn |-> cn,
   chain |-> chain, keydata |-> keydata,
   cs |-> checksum(version, depth, fp, cn, chain, keydata)]

ZeroBytes4 == <<0, 0, 0, 0>>

SomeFingerPrint == <<1, 2, 3, 4>>

SomeChildNumber == <<0, 0, 0, 1>>

\* a text of depth d with the metadata a derived (d > 0) or master key has
TextAt(version, d, chain, keydata) ==
  IF d = 0 THEN MkText(version, 0, ZeroBytes4, ZeroBytes4, chain, keydata)
  ELSE MkText(version, d, SomeFingerPrint, SomeChildNumber, chain, keydata)

PrvGood == <<0, 18, 52>>

PubGood == <<2, 18, 52>>

PubGoodOdd == <<3, 18, 52>>

PubOffCurve == <<2, 200, 0>>

DeriveTags == {xprv, xpub, tprv, tpub, zprv, zpub, UnregisteredVersion}

DeriveTexts ==
  {TextAt(v, 1, 0, kd) : v \in DeriveTags, kd \in {PrvGood, PubGood}}
  \cup {TextAt(xprv, d, 0, PrvGood) : d \in {0, 254, 255}}
  \cup {TextAt(xpub, d, 0, PubGood) : d \in {0, 255}}
  \cup {TextAt(tprv, 2, c, PrvGood) : c \in 0..MaxChain}
  \cup {TextAt(xpub, 1, 0, PubOffCurve), TextAt(tpub, 1, 0, PubGoodOdd),
        TextAt(xprv, 1, 0, <<0, 0, 0>>),
        [TextAt(xprv, 1, 0, PrvGood) EXCEPT !.cs = <<xprv, 0>>]}

CoreTexts == {TextAt(xprv, 1, 0, PrvGood), TextAt(xpub, 1, 0, PubGood),
              TextAt(tprv, 1, 0, PrvGood)}

RootPaths == {<<"m">>, <<>>, <<"/", "/">>, <<"M", "/">>}

CorePaths ==
  {<<"m">>, <<>>,
   <<"m", "/", "0">>,
   <<"m", "/", "0", "h">>,
   <<"m", "/", "1", "'", "/", "2">>}

EdgePaths ==
  {<<"m", "/", "2", "/", "0", "H">>,
   <<"m", "/", "2", "1", "4", "7", "4", "8", "3", "6", "4", "7", "h">>,
   <<"m", "/", "2", "1", "4", "7", "4", "8", "3", "6", "4", "7">>,
   <<"m", "/", "2", "1", "4", "7", "4", "8", "3", "6", "4", "8">>,
   <<"m", "/", "2", "1", "4", "7", "4", "8", "3", "6", "4", "8", "h">>,
   <<"m", "/", "4", "2", "9", "4", "9", "6", "7", "2", "9", "6">>,
   <<"m", "/", "9", "2", "2", "3", "3", "7", "2", "0", "3", "6", "8", "5",
     "4", "7", "7", "5", "8", "0", "8">>,
   <<"m", "/", "-", "1">>,
   <<"m", "/", "-", "0">>,
   <<"m", "/", "1", ".", "5">>,
   <<"m", "/", "x">>,
   <<"m", "/", "h">>,
   <<"m", "/", "/", "0">>,
   <<"0", "/", "1">>}

DeriveInputs ==
  (DeriveTexts \X {<<"m">>, <<"m", "/", "0">>, <<"m", "/", "0", "h">>})
  \cup (CoreTexts \X (RootPaths \cup CorePaths \cup EdgePaths))

DecodeTexts ==
  CoreTexts \cup {TextAt(UnregisteredVersion, 1, 0, PrvGood),
                  TextAt(zpub, 1, 0, PubGood),
                  TextAt(xpub, 1, 0, PubOffCurve)}

\* keydata of private keys: 0, 1, n-1, n, 2^16-1, first scalar byte 1 and 4
PrvKeyData ==
  {<<0, 0, 0>>, <<0, 0, 1>>, <<0, 255, 240>>, <<0, 255, 241>>,
   <<0, 255, 255>>, <<0, 1, 5>>, <<0, 4, 7>>, PrvGood}

PubKeyData ==
  {PubGood, PubGoodOdd, PubOffCurve, <<4, 18, 52>>, <<1, 18, 52>>,
   <<5, 18, 52>>}

ValidateTags == {xprv, xpub, UnregisteredVersion}

ValidateTexts ==
  {TextAt(v, d, 0, kd) : v \in ValidateTags, d \in {0, 1},
                         kd \in PrvKeyData \cup PubKeyData}
  \cup {MkText(v, 0, SomeFingerPrint, SomeChildNumber, 0, kd) :
          v \in ValidateTags, kd \in PrvKeyData \cup PubKeyData}
  \cup {MkText(xprv, 0, ZeroBytes4, SomeChildNumber, 0, PrvGood),
        MkText(Vpub, 0, ZeroBytes4, ZeroBytes4, 0, PrvGood),
        MkText(Vprv, 0, ZeroBytes4, ZeroBytes4, 0, PubGood),
        [TextAt(xpub, 1, 0, PubGood) EXCEPT !.cs = <<xpub, 0>>]}

SeedOf(n) == <<n, 7>>

MkConfig(seed, network, scriptType, derivationPath) ==
  [Seed |-> seed, Network |-> network, ScriptType |-> scriptType,
   DerivationPath |-> derivationPath]

AliasScriptTypes ==
  {ScriptTypeLegacy, ScriptTypeP2sh, ScriptTypeSegWitCompatible,
   ScriptTypeSegWitNative, ScriptTypeBech32}

NewConfigs ==
  {MkConfig(SeedOf(n), NetworkTypeMainnet, ScriptTypeLegacy, <<"M">>) :
     n \in 0..MaxSeed}
  \cup {MkConfig(SeedOf(0), NetworkTypeTestnet, ScriptTypeP2pkhOrP2sh,
                 <<"m", "/", "0", "h", "/", "1">>),
        MkConfig(SeedOf(0), "Testnet", ScriptTypeBech32,
                 <<"m", "/", "2", "H">>),
        MkConfig(SeedOf(0), "MAINNET", "Legacy", <<"m">>),
        MkConfig(SeedOf(0), "regtest", ScriptTypeLegacy, <<"m">>),
        MkConfig(SeedOf(0), NetworkTypeTestnet, "p2tr", <<"m">>),
        MkConfig(SeedOf(0), NetworkTypeMainnet, "", <<"m">>),
        MkConfig(SeedOf(0), NetworkTypeTestnet, ScriptTypeLegacy,
                 <<"m", "/", "/", "0">>),
        MkConfig(SeedOf(0), NetworkTypeTestnet, ScriptTypeLegacy,
                 <<"m", "/", "x">>)}

\* texts the calls of Validate between other calls are made on
FewValidateTexts ==
  {TextAt(xprv, 1, 0, PrvGood), TextAt(tpub, 1, 0, PubGood),
   TextAt(xpub, 1, 0, PrvGood), TextAt(UnregisteredVersion, 0, 0, PubGood)}

\* configs of the goroutines that run New side by side
ConcurrentConfigs ==
  {MkConfig(SeedOf(0), NetworkTypeMainnet, ScriptTypeLegacy,
            <<"m", "/", "0", "h">>),
   MkConfig(SeedOf(0), NetworkTypeTestnet, ScriptTypeLegacy,
            <<"m", "/", "0", "h">>),
   MkConfig(SeedOf(0), NetworkTypeMainnet, ScriptTypeP2wpkh, <<"m">>)}

\* configs of New for every script-type name and alias on both networks: the
\* canonical names on the root path, the aliases on a two-step path; names
\* in other letter case, other seeds and configs New refuses
FamilyConfigs ==
  {MkConfig(SeedOf(0), network, scriptType, <<"m">>) :
     network \in {NetworkTypeMainnet, NetworkTypeTestnet},
     scriptType \in CanonicalScriptTypes}
  \cup {MkConfig(SeedOf(0), network, scriptType,
                 <<"m", "/", "0", "h", "/", "1">>) :
          network \in {NetworkTypeMainnet, NetworkTypeTestnet},
          scriptType \in AliasScriptTypes}
  \cup {MkConfig(SeedOf(n), "MAINNET", "Legacy", <<"M", "/", "2", "H">>) :
          n \in 0..MaxSeed}
  \cup {MkConfig(SeedOf(0), "regtest", ScriptTypeLegacy, <<"m">>),
        MkConfig(SeedOf(0), NetworkTypeTestnet, "p2tr", <<"m">>)}

(***************************************************************************)
(* State                                                                   *)
(***************************************************************************)
VARIABLES
  PublicWalletVersion,   \* bip32.PublicWalletVersion
  PrivateWalletVersion,  \* bip32.PrivateWalletVersion
  call,                  \* the last completed call: inputs, the package
                         \* variables it started from, and what it returned
  th                     \* goroutines running New step by step

vars == <<PublicWalletVersion, PrivateWalletVersion, call, th>>

Threads == {1, 2}

NoConfig == MkConfig(<<>>, "", "", <<>>)

NoText == MkText(NilVersion, 0, <<>>, <<>>, 0, <<>>)

NoCall == [op |-> "none", keyString |-> NoText, path |-> <<>>,
           config |-> NoConfig, prv |-> xprv, pub |-> xpub,
           res |-> Fail("")]

IdleThread == [pc |-> "idle", config |-> NoConfig, network |-> "",
               scriptType |-> "", xKey |-> NilKey, parts |-> <<>>, i |-> 0,
               res |-> Fail("")]

\* the package variables as go-bip32 initialises them ("0488B21E",
\* "0488ADE4"); no call has been made, no goroutine runs
Init ==
  /\ PublicWalletVersion = xpub
  /\ PrivateWalletVersion = xprv
  /\ call = NoCall
  /\ th = [t \in Threads |-> IdleThread]

(***************************************************************************)
(* Calls made one after another                                            *)
(***************************************************************************)
CallNew ==
  \E config \in NewConfigs :
    LET r == New(config, PrivateWalletVersion, PublicWalletVersion)
    IN /\ PublicWalletVersion' = r.pub
       /\ PrivateWalletVersion' = r.prv
       /\ call' = [NoCall EXCEPT !.op = "New", !.config = config,
                                 !.prv = PrivateWalletVersion,
                                 !.pub = PublicWalletVersion, !.res = r.res]
       /\ UNCHANGED th

CallDerive ==
  \E in \in DeriveInputs :
    /\ call' = [NoCall EXCEPT !.op = "Derive", !.keyString = in[1],
                              !.path = in[2],
                              !.prv = PrivateWalletVersion,
                              !.pub = PublicWalletVersion,
                              !.res = Derive(in[1], in[2],
                                             PrivateWalletVersion,
                                             PublicWalletVersion)]
    /\ UNCHANGED <<PublicWalletVersion, PrivateWalletVersion, th>>

CallDecodeExtendedKey ==
  \E keyString \in DecodeTexts :
    /\ call' = [NoCall EXCEPT !.op = "DecodeExtendedKey",
                              !.keyString = keyString,
                              !.path = <<"m">>,
                              !.prv = PrivateWalletVersion,
                              !.pub = PublicWalletVersion,
                              !.res = DecodeExtendedKey(keyString,
                                                        PrivateWalletVersion,
                                                        PublicWalletVersion)]
    /\ UNCHANGED <<PublicWalletVersion, PrivateWalletVersion, th>>

\* the returned error as a result: nil is success without a key
ErrorResult(e) == IF e = "" THEN Ok(NilKey) ELSE Fail(e)

CallValidate(texts) ==
  \E keyString \in texts :
    /\ call' = [NoCall EXCEPT !.op = "Validate", !.keyString = keyString,
                              !.prv = PrivateWalletVersion,
                              !.pub = PublicWalletVersion,
                              !.res = ErrorResult(Validate(keyString))]
    /\ UNCHANGED <<PublicWalletVersion, PrivateWalletVersion, th>>

Next ==
  \/ CallNew
  \/ CallDerive
  \/ CallDecodeExtendedKey
  \/ CallValidate(FewValidateTexts)

Spec == Init /\ [][Next]_vars

(***************************************************************************)
(* Validate on its own                                                     *)
(***************************************************************************)
NextValidate == CallValidate(ValidateTexts)

SpecValidate == Init /\ [][NextValidate]_vars

(***************************************************************************)
(* New on its own, call after call                                         *)
(***************************************************************************)
CallNewAmong(configs) ==
  \E config \in configs :
    /\ PublicWalletVersion' =
         New(config, PrivateWalletVersion, PublicWalletVersion).pub
    /\ PrivateWalletVersion' =
         New(config, PrivateWalletVersion, PublicWalletVersion).prv
    /\ call' = [NoCall EXCEPT !.op = "New", !.config = config,
                              !.prv = PrivateWalletVersion,
                              !.pub = PublicWalletVersion,
                              !.res = New(config, PrivateWalletVersion,
                                          PublicWalletVersion).res]
    /\ UNCHANGED th

NextNew == CallNewAmong(FamilyConfigs)

SpecNew == Init /\ [][NextNew]_vars

(***************************************************************************)
(* Two goroutines, each calling New; a step is one access to the package   *)
(* variables together with the local computation around it                 *)
(***************************************************************************)
SetThread(t, r) == th' = [th EXCEPT ![t] = r]

\* lines 146-167: the locals and the network switch
NewStart(t) ==
  \E config \in ConcurrentConfigs :
    /\ th[t].pc = "idle"
    /\ SetThread(t,
         IF ToLowerWord(config.Network)
              \notin {NetworkTypeMainnet, NetworkTypeTestnet}
           THEN [IdleThread EXCEPT !.pc = "done", !.config = config,
                                   !.res = Fail(ErrInvalidNetwork)]
           ELSE [IdleThread EXCEPT
                   !.pc = "setPub", !.config = config,
                   !.network = ToLowerWord(config.Network),
                   !.scriptType =
                     CanonicalScriptType(ToLowerWord(config.ScriptType))])
    /\ UNCHANGED <<PublicWalletVersion, PrivateWalletVersion, call>>

\* the thread after an assignment from the map: on to pc next when ok
AfterLookup(r, l, next, e) ==
  IF l.ok THEN [r EXCEPT !.pc = next]
  ELSE [r EXCEPT !.pc = "done", !.res = Fail(e)]

\* line 171: bip32.PublicWalletVersion, ok = keyVersions[...]
NewSetPub(t) ==
  LET l == MapLookup(<<CoinTypeBtc, th[t].network, th[t].scriptType,
                       KeyTypePub>>)
  IN /\ th[t].pc = "setPub"
     /\ PublicWalletVersion' = l.v
     /\ SetThread(t, AfterLookup(th[t], l, "setPrv", ErrKeyVersionPub))
     /\ UNCHANGED <<PrivateWalletVersion, call>>

\* line 176: bip32.PrivateWalletVersion, ok = keyVersions[...]
NewSetPrv(t) ==
  LET l == MapLookup(<<CoinTypeBtc, th[t].network, th[t].scriptType,
                       KeyTypePrv>>)
  IN /\ th[t].pc = "setPrv"
     /\ PrivateWalletVersion' = l.v
     /\ SetThread(t, AfterLookup(th[t], l, "master", ErrKeyVersionPrv))
     /\ UNCHANGED <<PublicWalletVersion, call>>

\* the thread after NewMasterKey returned m and the path was split
AfterMaster(r, m, parts) ==
  IF m.err # "" THEN [r EXCEPT !.pc = "done", !.res = Fail(m.err)]
  ELSE IF parts[1] # <<"m">>
    THEN [r EXCEPT !.pc = "done", !.res = Fail(ErrPathStart)]
  ELSE [r EXCEPT !.pc = "derive", !.xKey = m.key, !.parts = parts, !.i = 2]

\* line 181 and lines 315-326: NewMasterKey, then the path is split
NewMaster(t) ==
  /\ th[t].pc = "master"
  /\ SetThread(t, AfterMaster(th[t],
                    NewMasterKey(th[t].config.Seed, PrivateWalletVersion),
                    Split(NormalPath(ToLower(th[t].config.DerivationPath)))))
  /\ UNCHANGED <<PublicWalletVersion, PrivateWalletVersion, call>>

\* the thread after one iteration of the loop returned s
AfterStep(r, s) ==
  IF s.st # "ok" THEN [r EXCEPT !.pc = "done", !.res = s]
  ELSE [r EXCEPT !.xKey = s.key, !.i = @ + 1]

\* lines 328-348: one iteration of the loop
NewChildStep(t) ==
  /\ th[t].pc = "derive"
  /\ th[t].i <= Len(th[t].parts)
  /\ SetThread(t, AfterStep(th[t],
                    StepPart(th[t].xKey, th[t].parts[th[t].i],
                             PrivateWalletVersion, PublicWalletVersion)))
  /\ UNCHANGED <<PublicWalletVersion, PrivateWalletVersion, call>>

\* lines 191-199: extendedKeyToKey and the return
NewToKey(t) ==
  /\ th[t].pc = "derive"
  /\ th[t].i > Len(th[t].parts)
  /\ SetThread(t, [th[t] EXCEPT
                     !.pc = "done",
                     !.res = NewOutput(th[t].config,
                                       extendedKeyToKey(th[t].xKey,
                                                        PublicWalletVersion))])
  /\ UNCHANGED <<PublicWalletVersion, PrivateWalletVersion, call>>

\* the caller takes the result; the goroutine may call New again
NewReturn(t) ==
  /\ th[t].pc = "done"
  /\ SetThread(t, IdleThread)
  /\ UNCHANGED <<PublicWalletVersion, PrivateWalletVersion, call>>

NextConcurrent ==
  \E t \in Threads :
    \/ NewStart(t)
    \/ NewSetPub(t)
    \/ NewSetPrv(t)
    \/ NewMaster(t)
    \/ NewChildStep(t)
    \/ NewToKey(t)
    \/ NewReturn(t)

SpecConcurrent == Init /\ [][NextConcurrent]_vars

(***************************************************************************)
(* Vocabulary of the properties                                            *)
(***************************************************************************)
RegisteredVersions == {keyVersions[k] : k \in DOMAIN keyVersions}

\* the registry entry <<coin, network, scriptType, keyType>> of a tag
EntryOf(version) == CHOOSE k \in DOMAIN keyVersions : keyVersions[k] = version

\* the public tag registered for the network and script type of a tag
PublicTagFor(version) ==
  keyVersions[<<CoinTypeBtc, EntryOf(version)[2], EntryOf(version)[3],
                KeyTypePub>>]

\* the text carries a private key: the byte before the 32-byte scalar is 0
TextIsPrivate(text) == Len(text.keydata) > 0 /\ text.keydata[1] = 0

\* the text is 82 bytes with a matching checksum
TextDecodes(text) ==
  /\ text.version # NilVersion
  /\ Len(text.keydata) = 3
  /\ text.cs = checksum(text.version, text.depth, text.fp, text.cn,
                        text.chain, text.keydata)

\* the scalar of a private text, as a number
TextScalar(text) ==
  text.keydata[2] * ByteBase + text.keydata[3]

\* a decodable text whose key material is a scalar in 1..n-1 or a point
WellFormedText(text) ==
  /\ TextDecodes(text)
  /\ IF TextIsPrivate(text)
       THEN TextScalar(text) >= 1 /\ TextScalar(text) <= BigN - 1
       ELSE IsOnCurve(text.keydata)

\* the segments after the first of a path as the code splits it
StepsOf(path) == Tail(Split(NormalPath(path)))

\* "m", the empty string, or separators only
IsRootPath(path) ==
  path = <<"m">> \/ \A i \in 1..Len(path) : path[i] = "/"

\* a call of Derive or DecodeExtendedKey has returned
Derived == call.op \in {"Derive", "DecodeExtendedKey"}

\* the text of the returned key itself: XPrv for a private key, else XPub
OwnText(k) == IF k.XPrv # NoString THEN k.XPrv ELSE k.XPub

(***************************************************************************)
(* C1: Derive(k, path) on a text k with a registered version tag and a     *)
(* non-empty path returns a child whose version tag is the tag of k (same  *)
(* network, script type and private/public kind), and reports the network  *)
(* of k in Network and in the addresses.                                   *)
(***************************************************************************)
C1_ChildKeepsParentFamily ==
  (/\ call.op = "Derive"
   /\ call.keyString.version \in RegisteredVersions
   /\ TextIsPrivate(call.keyString)
        <=> EntryOf(call.keyString.version)[4] = KeyTypePrv
   /\ Len(StepsOf(call.path)) > 0
   /\ call.res.st = "ok")
  => /\ OwnText(call.res.key).version = call.keyString.version
     /\ call.res.key.Network = EntryOf(call.keyString.version)[2]
     /\ call.res.key.Addr.net = EntryOf(call.keyString.version)[2]
     /\ call.res.key.SegWitNested.net = EntryOf(call.keyString.version)[2]
     /\ call.res.key.SegWitBech32.net = EntryOf(call.keyString.version)[2]

(***************************************************************************)
(* C2: when two goroutines run New on configs of their own, each call      *)
(* returns what it returns when run alone, under every interleaving.       *)
(***************************************************************************)
C2_ConcurrentNewAsAlone ==
  \A t \in Threads :
    th[t].pc = "done" => th[t].res = New(th[t].config, xprv, xpub).res

(***************************************************************************)
(* C3: when DecodeExtendedKey or Derive is given a private key with a      *)
(* registered private tag, the XPub of the returned Key carries the public *)
(* tag registered for the network and script type of that tag.             *)
(***************************************************************************)
C3_XPubMatchesPrivateTag ==
  (/\ Derived
   /\ TextIsPrivate(call.keyString)
   /\ call.keyString.version \in RegisteredVersions
   /\ EntryOf(call.keyString.version)[4] = KeyTypePrv
   /\ call.res.st = "ok")
  => call.res.key.XPub.version = PublicTagFor(call.keyString.version)

(***************************************************************************)
(* C4: Derive on a public key along a path with a segment that ends in a   *)
(* hardening marker fails with an error and returns no key.                *)
(***************************************************************************)
HasMarkedStep(path) ==
  \E i \in 1..Len(StepsOf(path)) :
    Len(StepsOf(path)[i]) > 0 /\ IsMarked(StepsOf(path)[i])

C4_HardenedFromPublicFails ==
  (/\ call.op = "Derive"
   /\ TextDecodes(call.keyString)
   /\ ~TextIsPrivate(call.keyString)
   /\ HasMarkedStep(call.path))
  => call.res.st = "err"

(***************************************************************************)
(* C5: a path segment whose numeric part is negative, not an integer or    *)
(* at least 2^31 is rejected; so a key is returned only when every segment *)
(* is in range, and its child number is the last segment's index, plus     *)
(* 2^31 when the segment is marked.                                        *)
(***************************************************************************)
NumericPart(part) ==
  IF IsMarked(part) THEN SubSeq(part, 1, Len(part) - 1) ELSE part

\* the numeric part is an integer in 0 .. 2^31 - 1
InIndexRange(part) ==
  /\ Len(part) > 0
  /\ ParseInt(NumericPart(part)).err = ""
  /\ ~IsNegative(ParseInt(NumericPart(part)))
  /\ ParseInt(NumericPart(part)).mag[4] = 0
  /\ ParseInt(NumericPart(part)).mag[3] = 0
  /\ ParseInt(NumericPart(part)).mag[2] < 32768

\* ser32 of the index of an in-range segment, the top bit set when marked
ExpectedChildNumber(part) ==
  uint32Bytes(<<ParseInt(NumericPart(part)).mag[1],
                ParseInt(NumericPart(part)).mag[2]
                  + (IF IsMarked(part) THEN 32768 ELSE 0)>>)

C5_SegmentsInRange ==
  (/\ call.op = "Derive"
   /\ call.res.st = "ok"
   /\ Len(StepsOf(call.path)) > 0)
  => /\ \A i \in 1..Len(StepsOf(call.path)) :
          InIndexRange(StepsOf(call.path)[i])
     /\ call.res.key.XPub.cn =
          ExpectedChildNumber(StepsOf(call.path)[Len(StepsOf(call.path))])

(***************************************************************************)
(* C6: a key derived along n >= 1 steps has the depth of its parent plus   *)
(* n, never 0, and deriving from a key of depth 255 fails.                 *)
(***************************************************************************)
C6_DepthNeverWraps ==
  (/\ call.op = "Derive"
   /\ TextDecodes(call.keyString)
   /\ Len(StepsOf(call.path)) > 0)
  => /\ call.res.st = "ok" =>
          /\ call.res.key.XPub.depth
               = call.keyString.depth + Len(StepsOf(call.path))
          /\ call.res.key.XPub.depth # 0
     /\ call.keyString.depth = 255 => call.res.st = "err"

(***************************************************************************)
(* C7: on a well-formed text k with a registered tag and a root path ("m", *)
(* empty, or separators only) Derive returns k itself: as XPrv when k is   *)
(* private, as XPub (and no XPrv) when k is public.                        *)
(***************************************************************************)
C7_RootPathReturnsInput ==
  (/\ Derived
   /\ IsRootPath(call.path)
   /\ WellFormedText(call.keyString)
   /\ call.keyString.version \in RegisteredVersions)
  => /\ call.res.st = "ok"
     /\ IF TextIsPrivate(call.keyString)
          THEN call.res.key.XPrv = call.keyString
          ELSE /\ call.res.key.XPub = call.keyString
               /\ call.res.key.XPrv = NoString

\* Derive("//") has returned a private text as XPrv
C7_Witness ==
  /\ call.op = "Derive"
  /\ call.path = <<"/", "/">>
  /\ WellFormedText(call.keyString)
  /\ TextIsPrivate(call.keyString)
  /\ call.keyString.version = tprv
  /\ call.res.st = "ok"
  /\ call.res.key.XPrv = call.keyString

(***************************************************************************)
(* C8: Derive and DecodeExtendedKey return no Key for a text whose version *)
(* tag is not registered, whatever the path.                               *)
(***************************************************************************)
C8_UnregisteredTagFails ==
  (/\ Derived
   /\ call.keyString.version \notin RegisteredVersions)
  => call.res.st # "ok"

(***************************************************************************)
(* C9: Validate on a decodable text whose tag is a registered public tag   *)
(* while the key is private, or a registered private tag while the key is  *)
(* public, returns the mismatch error, whatever else is wrong with it.     *)
(***************************************************************************)
C9_MismatchReportedFirst ==
  (/\ call.op = "Validate"
   /\ TextDecodes(call.keyString)
   /\ call.keyString.version \in RegisteredVersions)
  => /\ (EntryOf(call.keyString.version)[4] = KeyTypePub
           /\ TextIsPrivate(call.keyString))
          => call.res.err = ErrMarkedPrivateVersionPublic
     /\ (EntryOf(call.keyString.version)[4] = KeyTypePrv
           /\ ~TextIsPrivate(call.keyString))
          => call.res.err = ErrMarkedPublicVersionPrivate

\* a private key under the tag xpub, at depth 0 with a fingerprint, its
\* scalar starting with 0x04: the mismatch is what Validate reported
C9_Witness ==
  /\ call.op = "Validate"
  /\ call.keyString = MkText(xpub, 0, SomeFingerPrint, SomeChildNumber, 0,
                             <<0, 4, 7>>)
  /\ call.res.err = ErrMarkedPrivateVersionPublic

(***************************************************************************)
(* C10: Validate fails on every private key whose scalar is 0 or is at     *)
(* least the group order n.                                                *)
(***************************************************************************)
C10_ScalarOutOfRangeFails ==
  (/\ call.op = "Validate"
   /\ TextDecodes(call.keyString)
   /\ TextIsPrivate(call.keyString)
   /\ (TextScalar(call.keyString) = 0 \/ TextScalar(call.keyString) >= BigN))
  => call.res.st = "err"

\* the scalar is exactly n and nothing else is wrong: "too large"
C10_Witness ==
  /\ call.op = "Validate"
  /\ call.keyString = TextAt(xprv, 1, 0, <<0, 255, 241>>)
  /\ TextScalar(call.keyString) = BigN
  /\ call.res.err = ErrTooLarge

(***************************************************************************)
(* C11: Validate fails on every public key whose key material starts with  *)
(* a byte other than 0x02 and 0x03.                                        *)
(***************************************************************************)
C11_PublicLeadByteChecked ==
  (/\ call.op = "Validate"
   /\ TextDecodes(call.keyString)
   /\ ~TextIsPrivate(call.keyString)
   /\ call.keyString.keydata[1] \notin {2, 3})
  => call.res.st = "err"

(***************************************************************************)
(* C12: Validate accepts every private key under a registered private tag  *)
(* whose scalar s has 1 <= s <= n-1, whatever the first byte of s, and     *)
(* whose fingerprint and child number are zero when its depth is 0.        *)
(***************************************************************************)
C12_ValidPrivateKeyAccepted ==
  (/\ call.op = "Validate"
   /\ TextDecodes(call.keyString)
   /\ TextIsPrivate(call.keyString)
   /\ call.keyString.version \in RegisteredVersions
   /\ EntryOf(call.keyString.version)[4] = KeyTypePrv
   /\ TextScalar(call.keyString) >= 1
   /\ TextScalar(call.keyString) <= BigN - 1
   /\ call.keyString.depth = 0 =>
        call.keyString.fp = ZeroBytes4 /\ call.keyString.cn = ZeroBytes4)
  => call.res = Ok(NilKey)

(***************************************************************************)
(* C13: a successful New(seed, network N, script type S, path), S being a  *)
(* canonical name or an alias, returns XPrv under the private tag and XPub *)
(* under the public tag documented for N and S, reports N as Network, and  *)
(* the master key and every child on the way carry those tags, whatever    *)
(* calls were made before.                                                 *)
(***************************************************************************)
\* <<public tag, private tag>> as the constants file documents them for a
\* script-type name or alias
DocumentedTags(network, scriptType) ==
  CASE scriptType \in {ScriptTypeP2pkhOrP2sh, ScriptTypeLegacy} ->
         IF network = NetworkTypeMainnet THEN <<xpub, xprv>>
         ELSE <<tpub, tprv>>
    [] scriptType \in {ScriptTypeP2wpkhP2sh, ScriptTypeP2sh,
                       ScriptTypeSegWitCompatible} ->
         IF network = NetworkTypeMainnet THEN <<ypub, yprv>>
         ELSE <<upub, uprv>>
    [] scriptType = ScriptTypeP2wshP2sh ->
         IF network = NetworkTypeMainnet THEN <<Ypub, Yprv>>
         ELSE <<Upub, Uprv>>
    [] scriptType \in {ScriptTypeP2wpkh, ScriptTypeSegWitNative,
                       ScriptTypeBech32} ->
         IF network = NetworkTypeMainnet THEN <<zpub, zprv>>
         ELSE <<vpub, vprv>>
    [] scriptType = ScriptTypeP2wsh ->
         IF network = NetworkTypeMainnet THEN <<Zpub, Zprv>>
         ELSE <<Vpub, Vprv>>
    [] OTHER -> <<NilVersion, NilVersion>>

\* the tags documented for a config, names taken in lower case
ConfigTags(config) ==
  DocumentedTags(ToLowerWord(config.Network), ToLowerWord(config.ScriptType))

\* the segments of the path of a config, "m" first
ConfigParts(config) == Split(NormalPath(ToLower(config.DerivationPath)))

\* the key the last New call had after n segments: the master key for n = 1
KeyAfter(n) ==
  WalkFrom(NewMasterKey(call.config.Seed, PrivateWalletVersion).key,
           SubSeq(ConfigParts(call.config), 1, n),
           PrivateWalletVersion, PublicWalletVersion)

C13_NewTagsForFamily ==
  (call.op = "New" /\ call.res.st = "ok")
  => /\ call.res.key.XPrv.version = ConfigTags(call.config)[2]
     /\ call.res.key.XPub.version = ConfigTags(call.config)[1]
     /\ call.res.key.Network = ToLowerWord(call.config.Network)
     /\ \A n \in 1..Len(ConfigParts(call.config)) :
          /\ KeyAfter(n).st = "ok"
          /\ KeyAfter(n).key.Version = ConfigTags(call.config)[2]
          /\ PublicKey(KeyAfter(n).key, PublicWalletVersion).Version
               = ConfigTags(call.config)[1]

\* New(testnet, "bech32", m/0h/1) has returned keys tagged vprv / vpub, the
\* call before it having failed and left no public version behind
C13_Witness ==
  /\ call.op = "New"
  /\ call.config = MkConfig(SeedOf(0), NetworkTypeTestnet, ScriptTypeBech32,
                            <<"m", "/", "0", "h", "/", "1">>)
  /\ call.pub = NilVersion
  /\ call.prv # vprv
  /\ call.res.st = "ok"
  /\ call.res.key.XPrv.version = vprv
  /\ call.res.key.XPub.version = vpub
  /\ call.res.key.XPrv.depth = 2

(***************************************************************************)
(* C14: a New call that fails on its network or on a script type without a *)
(* registry entry leaves the package variables as they were, so that every *)
(* later Derive, DecodeExtendedKey and New returns what it would have      *)
(* returned had the failed call not been made.                             *)
(***************************************************************************)
C14_FailedNewLeavesNoTrace ==
  (/\ call.op = "New"
   /\ call.res.st = "err"
   /\ call.res.err \in {ErrInvalidNetwork, ErrKeyVersionPub, ErrKeyVersionPrv})
  => /\ PublicWalletVersion = call.pub
     /\ PrivateWalletVersion = call.prv
     /\ \A keyString \in DecodeTexts :
          DecodeExtendedKey(keyString, PrivateWalletVersion,
                            PublicWalletVersion)
            = DecodeExtendedKey(keyString, call.prv, call.pub)
     /\ \A keyString \in CoreTexts :
          Derive(keyString, <<"m", "/", "0">>, PrivateWalletVersion,
                 PublicWalletVersion)
            = Derive(keyString, <<"m", "/", "0">>, call.prv, call.pub)
     /\ \A config \in NewConfigs :
          New(config, PrivateWalletVersion, PublicWalletVersion).res
            = New(config, call.prv, call.pub).res

(***************************************************************************)
(* C15: whatever the derivation path, Derive and New return: a key or an   *)
(* error value, never a crash.                                             *)
(***************************************************************************)
C15_PathNeverCrashes ==
  call.op \in {"Derive", "New"} => call.res.st \in {"ok", "err"}

====
